---- MODULE Spec2Model ----
(***************************************************************************)
(* A model of the PR review agent: the unified-diff parser and the chunker *)
(* of app/utils.py, the multi-agent orchestration of app/orchestrator.py   *)
(* with its result cache, and the four analyzers of app/agents.            *)
(*                                                                         *)
(* A Python str is modelled as a sequence of one-character strings, so     *)
(* that len(), split(), startswith(), slicing and the regular expressions  *)
(* of the source are computed, not assumed.  An Optional value is the      *)
(* empty tuple (None) or a one-element tuple.                              *)
(***************************************************************************)
EXTENDS Integers, Sequences, FiniteSets, TLC

VARIABLES
    \* ---- the text pipeline (app/utils.py), specification SpecText
    diff,            \* the raw diff text handed to the parser / chunker
    max_chunk_size,  \* the budget handed to chunk_diff
    hunks,           \* result of parse_unified_diff(diff)
    chunks,          \* result of chunk_diff(diff, max_chunk_size)
    plan,            \* the chunk list orchestrate_review computes for diff
    tpc,             \* position in the text pipeline
    \* ---- the review service (app/orchestrator.py, app/agents), specification Spec
    api_key_set,     \* OPENAI_API_KEY is configured
    cache,           \* the alru_cache of review_diff, least recently used first
    pc,              \* "idle", "gather" (awaiting asyncio.gather), "returned", "raised"
    call,            \* the current review_diff call: its key, and what held when it began
    rchunks,         \* orchestrate_review: chunks
    ci,              \* orchestrate_review: index of the chunk being processed
    tasks,           \* the four coroutines of the gather: None while awaiting, else Some(outcome)
    all_comments,    \* orchestrate_review: all_comments
    errors,          \* orchestrate_review: errors
    result,          \* what the last review_diff call returned: None or Some(ReviewResult)
    log,             \* history: the analyzer calls of the current review and how they ended
    inv,             \* history: number of analyzer invocations so far
    ncalls,          \* history: number of review_diff calls so far
    nfail,           \* history: number of analyzer requests that failed so far
    lru,             \* history: the keys of the most recent calls, at most maxsize
    known,           \* history: per key, the result computed for it and not evicted since
    inflight,        \* history: the analyzer calls dispatched and not yet returned or failed
    \* ---- the parser's loop step by step (app/utils.py), specification SpecScan
    scan,            \* parse_unified_diff: lines, i, current_file, hunks, and whether it returned
    \* ---- the HTTP entry points (app/main.py), specification SpecHttp
    http,            \* the request being handled and what the handler did with it
    \* ---- the aggregation of orchestrate_review step by step, specification SpecAgg
    agg,             \* orchestrate_review after the chunk loop: unique_comments, stats, summary
    \* ---- review_diff calls in flight at the same time, specification SpecConc
    conc             \* the alru_cache, the tasks it created, and the callers

textVars == <<diff, max_chunk_size, hunks, chunks, plan, tpc>>

vars == <<diff, max_chunk_size, hunks, chunks, plan, tpc,
          api_key_set, cache, pc, call, rchunks, ci, tasks, all_comments, errors,
          result, log, inv, ncalls, nfail, lru, known, inflight, scan, http, agg, conc>>

otherVars == <<scan, http, agg, conc>>

reviewVars == <<api_key_set, cache, pc, call, rchunks, ci, tasks, all_comments,
                errors, result, log, inv, ncalls, nfail, lru, known, inflight>>

-----------------------------------------------------------------------------
(* Python values *)

None == <<>>
Some(v) == <<v>>

NL == "\n"
CR == "\r"

Digits == {"0", "1", "2", "3", "4", "5", "6", "7", "8", "9"}

DigitVal(c) ==
    CASE c = "0" -> 0 [] c = "1" -> 1 [] c = "2" -> 2 [] c = "3" -> 3
      [] c = "4" -> 4 [] c = "5" -> 5 [] c = "6" -> 6 [] c = "7" -> 7
      [] c = "8" -> 8 [] c = "9" -> 9

DigitChar(d) ==
    CASE d = 0 -> "0" [] d = 1 -> "1" [] d = 2 -> "2" [] d = 3 -> "3"
      [] d = 4 -> "4" [] d = 5 -> "5" [] d = 6 -> "6" [] d = 7 -> "7"
      [] d = 8 -> "8" [] d = 9 -> "9"

\* int(s) for a string of decimal digits
RECURSIVE int(_)
int(s) ==
    IF Len(s) = 0 THEN 0
    ELSE int(SubSeq(s, 1, Len(s) - 1)) * 10 + DigitVal(s[Len(s)])

\* str(n) for a natural number
RECURSIVE str(_)
str(n) ==
    IF n < 10 THEN <<DigitChar(n)>>
    ELSE Append(str(n \div 10), DigitChar(n % 10))

\* s.startswith(p)
startswith(s, p) == Len(s) >= Len(p) /\ SubSeq(s, 1, Len(p)) = p

\* s[:n]
prefix(s, n) == SubSeq(s, 1, IF Len(s) < n THEN Len(s) ELSE n)

\* s.split(sep) for a one-character separator: the pieces between the
\* occurrences of sep, in order (one more piece than occurrences)
split(s, sep) ==
    LET idx == {i \in 1..Len(s) : s[i] = sep}
        n == Cardinality(idx)
        at(k) == IF k = 0 THEN 0
                 ELSE IF k = n + 1 THEN Len(s) + 1
                 ELSE CHOOSE i \in idx : Cardinality({j \in idx : j < i}) = k - 1
    IN [k \in 1..(n + 1) |-> SubSeq(s, at(k - 1) + 1, at(k) - 1)]

\* sep.join(parts)
RECURSIVE join(_, _)
join(sep, parts) ==
    IF Len(parts) = 0 THEN <<>>
    ELSE IF Len(parts) = 1 THEN parts[1]
    ELSE parts[1] \o sep \o join(sep, Tail(parts))

-----------------------------------------------------------------------------
(* String literals of app/utils.py *)

S_diff_git == <<"d", "i", "f", "f", " ", "-", "-", "g", "i", "t">>   \* "diff --git"
S_diff == <<"d", "i", "f", "f">>                                     \* "diff"
S_minus3 == <<"-", "-", "-">>                                        \* "---"
S_plus3 == <<"+", "+", "+">>                                         \* "+++"
S_plus3_b == <<"+", "+", "+", " ", "b", "/">>                        \* "+++ b/"
S_at2 == <<"@", "@">>                                                \* "@@"
S_at_open == <<"@", "@", " ", "-">>                                  \* "@@ -"
S_at_close == <<" ", "@", "@">>                                      \* " @@"
S_File == <<"F", "i", "l", "e", ":", " ">>                           \* "File: "

-----------------------------------------------------------------------------
(* app/utils.py: parse_unified_diff *)

DiffHunk(file_path, old_start, old_count, new_start, new_count, content) ==
    [file_path |-> file_path, old_start |-> old_start, old_count |-> old_count,
     new_start |-> new_start, new_count |-> new_count, content |-> content]

\* re.match(r'\+\+\+ b/(.*)', line): None, or Some(group 1)
match_new_file(line) ==
    IF startswith(line, S_plus3_b)
    THEN Some(SubSeq(line, Len(S_plus3_b) + 1, Len(line)))
    ELSE None

\* the index just after the longest run of digits of s that starts at index i
RECURSIVE digits_end(_, _)
digits_end(s, i) ==
    IF i <= Len(s) /\ s[i] \in Digits THEN digits_end(s, i + 1) ELSE i

\* the index after an optional "," at index i
skip_comma(s, i) == IF i <= Len(s) /\ s[i] = "," THEN i + 1 ELSE i

\* re.match(r'@@ -(\d+),?(\d*) \+(\d+),?(\d*) @@', line): None, or
\* Some(<<group 1, group 2, group 3, group 4>>)
match_hunk_header(line) ==
    IF ~startswith(line, S_at_open) THEN None
    ELSE
      LET a1 == Len(S_at_open) + 1
          e1 == digits_end(line, a1)
          a2 == skip_comma(line, e1)
          e2 == digits_end(line, a2)
      IN IF e1 = a1 \/ e2 + 1 > Len(line) \/ line[e2] # " " \/ line[e2 + 1] # "+"
         THEN None
         ELSE
           LET a3 == e2 + 2
               e3 == digits_end(line, a3)
               a4 == skip_comma(line, e3)
               e4 == digits_end(line, a4)
           IN IF e3 = a3 \/ e4 + 2 > Len(line) \/ SubSeq(line, e4, e4 + 2) # S_at_close
              THEN None
              ELSE Some(<<SubSeq(line, a1, e1 - 1), SubSeq(line, a2, e2 - 1),
                          SubSeq(line, a3, e3 - 1), SubSeq(line, a4, e4 - 1)>>)

\* the inner while loop: the first index >= i that is past the end or holds a
\* line starting with '@@' or with 'diff'
RECURSIVE hunk_end(_, _)
hunk_end(lines, i) ==
    IF i <= Len(lines) /\ ~startswith(lines[i], S_at2) /\ ~startswith(lines[i], S_diff)
    THEN hunk_end(lines, i + 1)
    ELSE i

\* int(match.group(k) or 1)
count_or_1(g) == IF g = <<>> THEN 1 ELSE int(g)

\* parse_step that leaves the index where it is on a "@@" line opening no hunk
parse_step_stuck(lines, i, current_file, acc) ==
    LET line == lines[i]
        m == match_hunk_header(line)
    IN IF startswith(line, S_at2)
       THEN IF m # None /\ current_file # None /\ current_file[1] # <<>>
            THEN LET j == hunk_end(lines, i + 1)
                 IN [i |-> j, current_file |-> current_file,
                     hunks |-> Append(acc, DiffHunk(current_file[1], int(m[1][1]),
                                                    count_or_1(m[1][2]), int(m[1][3]),
                                                    count_or_1(m[1][4]),
                                                    join(<<NL>>, SubSeq(lines, i, j - 1))))]
            ELSE [i |-> i, current_file |-> current_file, hunks |-> acc]
       ELSE IF startswith(line, S_plus3) /\ match_new_file(line) # None
       THEN [i |-> i + 1, current_file |-> match_new_file(line), hunks |-> acc]
       ELSE [i |-> i + 1, current_file |-> current_file, hunks |-> acc]

\* one iteration of the outer while loop at line index i (1-based): the index,
\* the current file and the hunks after it
parse_step(lines, i, current_file, acc) ==
    LET line == lines[i]
        skip == [i |-> i + 1, current_file |-> current_file, hunks |-> acc]
    IN
      IF startswith(line, S_diff_git) THEN skip
      ELSE IF startswith(line, S_minus3) THEN skip
      ELSE IF startswith(line, S_plus3) THEN
        LET m == match_new_file(line)
        IN [i |-> i + 1, current_file |-> IF m # None THEN m ELSE current_file,
            hunks |-> acc]
      ELSE IF startswith(line, S_at2) THEN
        LET m == match_hunk_header(line) IN
        IF m # None /\ current_file # None /\ current_file[1] # <<>>
        THEN LET g == m[1]
                 j == hunk_end(lines, i + 1)
                 hunk_content == join(<<NL>>, SubSeq(lines, i, j - 1))
             IN [i |-> j, current_file |-> current_file,
                 hunks |-> Append(acc, DiffHunk(current_file[1], int(g[1]),
                                                count_or_1(g[2]), int(g[3]),
                                                count_or_1(g[4]), hunk_content))]
        ELSE skip
      ELSE skip

\* the outer while loop, from line index i (1-based) with the current file and
\* the hunks collected so far
RECURSIVE parse_loop(_, _, _, _)
parse_loop(lines, i, current_file, acc) ==
    IF i > Len(lines) THEN acc
    ELSE LET st == parse_step(lines, i, current_file, acc)
         IN parse_loop(lines, st.i, st.current_file, st.hunks)

parse_unified_diff(d) == parse_loop(split(d, NL), 1, None, <<>>)

-----------------------------------------------------------------------------
(* app/utils.py: chunk_diff *)

\* f"File: {hunk.file_path}\n{hunk.content}\n\n"
hunk_str(hunk) == S_File \o hunk.file_path \o <<NL>> \o hunk.content \o <<NL, NL>>

\* chunk_loop closing the current chunk already when the sizes reach the budget
\* (>= for >)
RECURSIVE chunk_loop_ge(_, _, _, _)
chunk_loop_ge(hs, i, max, st) ==
    IF i > Len(hs) THEN st
    ELSE
      LET h_str == hunk_str(hs[i])
          hunk_size == Len(h_str)
      IN IF st.current_size + hunk_size >= max /\ st.current_chunk # <<>>
         THEN chunk_loop_ge(hs, i + 1, max,
                [chunks |-> Append(st.chunks, join(<<NL>>, st.current_chunk)),
                 current_chunk |-> <<h_str>>,
                 current_size |-> hunk_size])
         ELSE chunk_loop_ge(hs, i + 1, max,
                [chunks |-> st.chunks,
                 current_chunk |-> Append(st.current_chunk, h_str),
                 current_size |-> st.current_size + hunk_size])

\* the for loop over the hunks from index i: st holds chunks, current_chunk and
\* current_size
RECURSIVE chunk_loop(_, _, _, _)
chunk_loop(hs, i, max, st) ==
    IF i > Len(hs) THEN st
    ELSE
      LET h_str == hunk_str(hs[i])
          hunk_size == Len(h_str)
      IN IF st.current_size + hunk_size > max /\ st.current_chunk # <<>>
         THEN chunk_loop(hs, i + 1, max,
                [chunks |-> Append(st.chunks, join(<<NL>>, st.current_chunk)),
                 current_chunk |-> <<h_str>>,
                 current_size |-> hunk_size])
         ELSE chunk_loop(hs, i + 1, max,
                [chunks |-> st.chunks,
                 current_chunk |-> Append(st.current_chunk, h_str),
                 current_size |-> st.current_size + hunk_size])

\* chunk_diff without the final "if current_chunk: chunks.append(...)"
chunk_diff_no_flush(d, max) ==
    IF Len(d) <= max THEN <<d>>
    ELSE chunk_loop(parse_unified_diff(d), 1, max,
                    [chunks |-> <<>>, current_chunk |-> <<>>, current_size |-> 0]).chunks

\* chunk_diff without the "len(diff) <= max_chunk_size" shortcut
chunk_diff_always(d, max) ==
    LET st == chunk_loop(parse_unified_diff(d), 1, max,
                         [chunks |-> <<>>, current_chunk |-> <<>>, current_size |-> 0])
    IN IF st.current_chunk # <<>>
       THEN Append(st.chunks, join(<<NL>>, st.current_chunk))
       ELSE st.chunks

chunk_diff(d, max) ==
    IF Len(d) <= max THEN <<d>>
    ELSE
      LET st == chunk_loop(parse_unified_diff(d), 1, max,
                           [chunks |-> <<>>, current_chunk |-> <<>>, current_size |-> 0])
      IN IF st.current_chunk # <<>>
         THEN Append(st.chunks, join(<<NL>>, st.current_chunk))
         ELSE st.chunks

-----------------------------------------------------------------------------
(* app/orchestrator.py: the chunk list of orchestrate_review *)

\* max_diff_size = 15000 in the source; scaled to the size of the model's diffs
max_diff_size == 64

review_chunks(d) ==
    IF Len(d) > max_diff_size THEN chunk_diff(d, max_diff_size) ELSE <<d>>

-----------------------------------------------------------------------------
(* Python str ordering, as list.sort compares the file names *)

ASCII_32_95 == <<" ", "!", "\"", "#", "$", "%", "&", "'", "(", ")", "*", "+", ",", "-", ".", "/", "0", "1", "2", "3", "4", "5", "6", "7", "8", "9", ":", ";", "<", "=", ">", "?", "@", "A", "B", "C", "D", "E", "F", "G", "H", "I", "J", "K", "L", "M", "N", "O", "P", "Q", "R", "S", "T", "U", "V", "W", "X", "Y", "Z", "[", "\\", "]", "^", "_">>
\* the characters from "a" (97) to "~" (126)
ASCII_97_126 == <<"a", "b", "c", "d", "e", "f", "g", "h", "i", "j", "k", "l", "m", "n", "o", "p", "q", "r", "s", "t", "u", "v", "w", "x", "y", "z", "{", "|", "}", "~">>

\* ord(c) for a printable ASCII character
ord(c) ==
    IF \E i \in 1..Len(ASCII_32_95) : ASCII_32_95[i] = c
    THEN 31 + (CHOOSE i \in 1..Len(ASCII_32_95) : ASCII_32_95[i] = c)
    ELSE 96 + (CHOOSE i \in 1..Len(ASCII_97_126) : ASCII_97_126[i] = c)

\* a < b for two str
RECURSIVE str_lt(_, _)
str_lt(a, b) ==
    IF Len(b) = 0 THEN FALSE
    ELSE IF Len(a) = 0 THEN TRUE
    ELSE IF a[1] = b[1] THEN str_lt(Tail(a), Tail(b))
    ELSE ord(a[1]) < ord(b[1])

-----------------------------------------------------------------------------
(* String literals of app/orchestrator.py and app/agents *)

S_logic == <<"l", "o", "g", "i", "c">>                                  \* "logic"
S_security == <<"s", "e", "c", "u", "r", "i", "t", "y">>                \* "security"
S_performance == <<"p", "e", "r", "f", "o", "r", "m", "a", "n", "c", "e">>   \* "performance"
S_style == <<"s", "t", "y", "l", "e">>                                  \* "style"
S_high == <<"h", "i", "g", "h">>                                        \* "high"
S_medium == <<"m", "e", "d", "i", "u", "m">>                            \* "medium"
S_low == <<"l", "o", "w">>                                              \* "low"
S_unknown == <<"u", "n", "k", "n", "o", "w", "n">>                      \* "unknown"
S_Agent == <<"A", "g", "e", "n", "t", " ">>                             \* "Agent "
S_failed == <<" ", "f", "a", "i", "l", "e", "d", ":", " ">>             \* " failed: "
S_no_issues == <<"C", "o", "d", "e", " ", "r", "e", "v", "i", "e", "w", " ", "c", "o", "m", "p", "l", "e", "t", "e", ".", " ", "N", "o", " ", "s", "i", "g", "n", "i", "f", "i", "c", "a", "n", "t", " ", "i", "s", "s", "u", "e", "s", " ", "f", "o", "u", "n", "d", ".">>   \* "Code review complete. No significant issues found."
S_found == <<"C", "o", "d", "e", " ", "r", "e", "v", "i", "e", "w", " ", "c", "o", "m", "p", "l", "e", "t", "e", ".", " ", "F", "o", "u", "n", "d", " ">>   \* "Code review complete. Found "
S_issues == <<" ", "i", "s", "s", "u", "e", "(", "s", ")", ":">>        \* " issue(s):"
S_indent == <<" ", " ">>                                                \* "  "
S_high_sev == <<" ", "h", "i", "g", "h", " ", "s", "e", "v", "e", "r", "i", "t", "y">>   \* " high severity"
S_medium_sev == <<" ", "m", "e", "d", "i", "u", "m", " ", "s", "e", "v", "e", "r", "i", "t", "y">>   \* " medium severity"
S_low_sev == <<" ", "l", "o", "w", " ", "s", "e", "v", "e", "r", "i", "t", "y">>   \* " low severity"
S_key_findings == <<"\n", "K", "e", "y", " ", "f", "i", "n", "d", "i", "n", "g", "s", ":">>   \* "\nKey findings:"
S_item == <<" ", " ", "-", " ", "[">>                                   \* "  - ["
S_bracket == <<"]", " ">>                                               \* "] "
S_colon == <<":", " ">>                                                 \* ": "
S_dots == <<".", ".", ".">>                                             \* "..."
S_note == <<"\n", "\n", "N", "o", "t", "e", ":", " ">>                  \* "\n\nNote: "
S_note_end == <<" ", "a", "g", "e", "n", "t", "(", "s", ")", " ", "f", "a", "i", "l", "e", "d", " ", "d", "u", "r", "i", "n", "g", " ", "r", "e", "v", "i", "e", "w", ".">>   \* " agent(s) failed during review."
\* str() of the error AsyncOpenAI() raises when no API key is configured
S_api_key_error == <<"T", "h", "e", " ", "a", "p", "i", "_", "k", "e", "y", " ", "c", "l", "i", "e", "n", "t", " ", "o", "p", "t", "i", "o", "n", " ", "m", "u", "s", "t", " ", "b", "e", " ", "s", "e", "t">>   \* "The api_key client option must be set"

-----------------------------------------------------------------------------
(* app/schemas.py *)

ReviewComment(agent, severity, file, line, message, suggestion) ==
    [agent |-> agent, severity |-> severity, file |-> file, line |-> line,
     message |-> message, suggestion |-> suggestion, code_snippet |-> None]

ReviewStats(total_comments, by_severity, by_agent) ==
    [total_comments |-> total_comments, by_severity |-> by_severity,
     by_agent |-> by_agent]

\* ReviewResult declares summary, comments and stats and no errors field: the
\* model class ignores a keyword argument it does not declare
ReviewResult(summary, comments, stats, errs) ==
    [summary |-> summary, comments |-> comments, stats |-> stats]

-----------------------------------------------------------------------------
(* app/agents: the four analyzers *)

\* issue.get(k, default) and issue.get(k)
get(d, k, default) == IF k \in DOMAIN d THEN d[k] ELSE default
get_opt(d, k) == IF k \in DOMAIN d THEN Some(d[k]) ELSE None

\* the outcome of a coroutine: a returned value or a raised exception
Returned(v) == [exc |-> FALSE, value |-> v, msg |-> <<>>]
Raised(m) == [exc |-> TRUE, value |-> <<>>, msg |-> m]

\* the loop building the ReviewComment list from the issues of the response
comments_of(agent, default_severity, issues) ==
    [i \in 1..Len(issues) |->
        ReviewComment(agent,
                      get(issues[i], "severity", default_severity),
                      get(issues[i], "file", S_unknown),
                      get_opt(issues[i], "line"),
                      get(issues[i], "message", <<>>),
                      get_opt(issues[i], "suggestion"))]

\* An analyzer called with (chunk, context).  key_set: OPENAI_API_KEY is
\* configured (AsyncOpenAI() raises outside the try block when it is not).
\* resp: None when the completion request or the decoding of its content raises
\* inside the try block (transport error, timeout, malformed output), else
\* Some(issues), the decoded issue list.
logic_agent(key_set, resp) ==
    IF ~key_set THEN Raised(S_api_key_error)
    ELSE IF resp = None THEN Returned(<<>>)
    ELSE Returned(comments_of(S_logic, S_medium, resp[1]))

security_agent(key_set, resp) ==
    IF ~key_set THEN Raised(S_api_key_error)
    ELSE IF resp = None THEN Returned(<<>>)
    ELSE Returned(comments_of(S_security, S_high, resp[1]))

perf_agent(key_set, resp) ==
    IF ~key_set THEN Raised(S_api_key_error)
    ELSE IF resp = None THEN Returned(<<>>)
    ELSE Returned(comments_of(S_performance, S_medium, resp[1]))

style_agent(key_set, resp) ==
    IF ~key_set THEN Raised(S_api_key_error)
    ELSE IF resp = None THEN Returned(<<>>)
    ELSE Returned(comments_of(S_style, S_low, resp[1]))

\* the j-th coroutine handed to asyncio.gather
agent(j, key_set, resp) ==
    CASE j = 1 -> logic_agent(key_set, resp)
      [] j = 2 -> security_agent(key_set, resp)
      [] j = 3 -> perf_agent(key_set, resp)
      [] j = 4 -> style_agent(key_set, resp)

NumAgents == 4

-----------------------------------------------------------------------------
(* app/orchestrator.py *)

agent_names == <<S_logic, S_security, S_performance, S_style>>

\* asyncio.gather without return_exceptions: the first exception propagates
gather_propagating(results) ==
    IF \E j \in 1..Len(results) : results[j].exc
    THEN LET j == CHOOSE j \in 1..Len(results) :
                      results[j].exc /\ \A i \in 1..(j - 1) : ~results[i].exc
         IN [raised |-> TRUE, msg |-> results[j].msg, results |-> <<>>]
    ELSE [raised |-> FALSE, msg |-> <<>>, results |-> results]

\* a wait that ends as soon as one of the coroutines is done
first_completed(ts) == \E j \in 1..Len(ts) : ts[j] # None

\* "await asyncio.gather(...)" resumes when every coroutine is done
gather_ready(ts) == \A j \in 1..Len(ts) : ts[j] # None

\* the outcome gather reads from a coroutine (one still pending has none)
outcome_of(t) == IF t = None THEN Returned(<<>>) ELSE t[1]

\* asyncio.gather(..., return_exceptions=True): exceptions are results
gather(results) == [raised |-> FALSE, msg |-> <<>>, results |-> results]

\* the loop "for j, result in enumerate(results)" from index j
RECURSIVE collect(_, _, _, _)
collect(results, j, comments, errs) ==
    IF j > Len(results) THEN [all_comments |-> comments, errors |-> errs]
    ELSE IF results[j].exc
         THEN collect(results, j + 1, comments,
                      Append(errs, S_Agent \o agent_names[j] \o S_failed \o results[j].msg))
         ELSE collect(results, j + 1, comments \o results[j].value, errs)

\* key = (comment.file, comment.line, comment.message[:100])
dedup_key(comment) == <<comment.file, comment.line, prefix(comment.message, 100)>>

RECURSIVE dedup_loop(_, _, _, _)
dedup_loop(comments, i, unique, seen) ==
    IF i > Len(comments) THEN unique
    ELSE IF dedup_key(comments[i]) \notin seen
         THEN dedup_loop(comments, i + 1, Append(unique, comments[i]),
                         seen \cup {dedup_key(comments[i])})
         ELSE dedup_loop(comments, i + 1, unique, seen)

\* deduplication in which the latest finding of a key replaces the earlier one
dedupe_keep_last(comments) ==
    LET n == Len(comments)
        idx == {i \in 1..n :
                   \A j \in (i + 1)..n : dedup_key(comments[j]) # dedup_key(comments[i])}
        at(k) == CHOOSE i \in idx : Cardinality({j \in idx : j < i}) = k - 1
    IN [k \in 1..Cardinality(idx) |-> comments[at(k)]]

_deduplicate_comments(comments) == dedup_loop(comments, 1, <<>>, {})

\* severity_order.get(c.severity, 3)
severity_rank(s) ==
    IF s = S_high THEN 0 ELSE IF s = S_medium THEN 1 ELSE IF s = S_low THEN 2 ELSE 3

\* c.line or 0
line_or_0(c) == IF c.line = None THEN 0 ELSE c.line[1]

\* the sort key of a is smaller than the sort key of b
sort_key_lt(a, b) ==
    \/ severity_rank(a.severity) < severity_rank(b.severity)
    \/ /\ severity_rank(a.severity) = severity_rank(b.severity)
       /\ \/ str_lt(a.file, b.file)
          \/ a.file = b.file /\ line_or_0(a) < line_or_0(b)

\* an insertion that puts x before the elements with an equal key
RECURSIVE insert_before_equal(_, _)
insert_before_equal(sorted, x) ==
    IF Len(sorted) = 0 THEN <<x>>
    ELSE IF ~sort_key_lt(sorted[1], x) THEN <<x>> \o sorted
    ELSE <<sorted[1]>> \o insert_before_equal(Tail(sorted), x)

\* list.sort is stable: x goes before the first element with a larger key
RECURSIVE insert_sorted(_, _)
insert_sorted(sorted, x) ==
    IF Len(sorted) = 0 THEN <<x>>
    ELSE IF sort_key_lt(x, sorted[1]) THEN <<x>> \o sorted
    ELSE <<sorted[1]>> \o insert_sorted(Tail(sorted), x)

RECURSIVE sort_from(_, _, _)
sort_from(comments, i, sorted) ==
    IF i > Len(comments) THEN sorted
    ELSE sort_from(comments, i + 1, insert_sorted(sorted, comments[i]))

sort_comments(comments) == sort_from(comments, 1, <<>>)

\* statistics that count only the severities high, medium and low
stats_known_severities(comments) ==
    LET n == Len(comments)
        known_sev == {comments[i].severity : i \in 1..n} \cap {S_high, S_medium, S_low}
        by_severity == [s \in known_sev |->
                           Cardinality({i \in 1..n : comments[i].severity = s})]
        by_agent == [a \in {comments[i].agent : i \in 1..n} |->
                        Cardinality({i \in 1..n : comments[i].agent = a})]
    IN ReviewStats(n, by_severity, by_agent)

_calculate_stats(comments) ==
    LET n == Len(comments)
        by_severity == [s \in {comments[i].severity : i \in 1..n} |->
                           Cardinality({i \in 1..n : comments[i].severity = s})]
        by_agent == [a \in {comments[i].agent : i \in 1..n} |->
                        Cardinality({i \in 1..n : comments[i].agent = a})]
    IN ReviewStats(n, by_severity, by_agent)

\* [c for c in comments if c.severity == 'high'][:3]
top_high(comments) ==
    LET high == SelectSeq(comments, LAMBDA c : c.severity = S_high)
    IN SubSeq(high, 1, IF Len(high) < 3 THEN Len(high) ELSE 3)

_generate_summary(comments, stats) ==
    IF Len(comments) = 0 THEN S_no_issues
    ELSE
      LET high_count == get(stats.by_severity, S_high, 0)
          medium_count == get(stats.by_severity, S_medium, 0)
          low_count == get(stats.by_severity, S_low, 0)
          high_severity == top_high(comments)
          summary_parts ==
              <<S_found \o str(stats.total_comments) \o S_issues>>
              \o (IF high_count > 0 THEN <<S_indent \o str(high_count) \o S_high_sev>> ELSE <<>>)
              \o (IF medium_count > 0 THEN <<S_indent \o str(medium_count) \o S_medium_sev>> ELSE <<>>)
              \o (IF low_count > 0 THEN <<S_indent \o str(low_count) \o S_low_sev>> ELSE <<>>)
              \o <<S_key_findings>>
              \o [i \in 1..Len(high_severity) |->
                    S_item \o high_severity[i].agent \o S_bracket
                    \o high_severity[i].file \o S_colon
                    \o prefix(high_severity[i].message, 80) \o S_dots]
      IN join(<<NL>>, summary_parts)

\* if errors: summary += f"\n\nNote: {len(errors)} agent(s) failed during review."
with_note(summary, errs) ==
    IF Len(errs) > 0
    THEN summary \o S_note \o str(Len(errs)) \o S_note_end
    ELSE summary

\* orchestrate_review after the chunk loop: deduplicate, sort, statistics,
\* summary, and the ReviewResult returned
build_result(comments, errs) ==
    LET unique_comments == sort_comments(_deduplicate_comments(comments))
        stats == _calculate_stats(unique_comments)
        summary == with_note(_generate_summary(unique_comments, stats), errs)
    IN ReviewResult(summary, unique_comments, stats, errs)

-----------------------------------------------------------------------------
(* Inputs of the text pipeline: diffs assembled from file sections *)

L_git_x == <<"d", "i", "f", "f", " ", "-", "-", "g", "i", "t", " ", "a", "/", "x", " ", "b", "/", "x">>   \* "diff --git a/x b/x"
L_old_x == <<"-", "-", "-", " ", "a", "/", "x">>   \* "--- a/x"
L_new_x == <<"+", "+", "+", " ", "b", "/", "x">>   \* "+++ b/x"
L_git_y == <<"d", "i", "f", "f", " ", "-", "-", "g", "i", "t", " ", "a", "/", "y", " ", "b", "/", "y">>   \* "diff --git a/y b/y"
L_old_y == <<"-", "-", "-", " ", "a", "/", "y">>   \* "--- a/y"
L_new_y == <<"+", "+", "+", " ", "b", "/", "y">>   \* "+++ b/y"
L_git_w == <<"d", "i", "f", "f", " ", "-", "-", "g", "i", "t", " ", "a", "/", "w", " ", "b", "/", "w">>   \* "diff --git a/w b/w"
L_new_w == <<"+", "+", "+", " ", "b", "/", "w">>   \* "+++ b/w"
L_old_z == <<"-", "-", "-", " ", "a", "/", "z">>   \* "--- a/z"
L_new_z == <<"+", "+", "+", " ", "b", "/", "z">>   \* "+++ b/z"
L_hdr_1 == <<"@", "@", " ", "-", "1", " ", "+", "1", " ", "@", "@">>   \* "@@ -1 +1 @@"
L_hdr_2 == <<"@", "@", " ", "-", "2", ",", "3", " ", "+", "4", ",", "5", " ", "@", "@">>   \* "@@ -2,3 +4,5 @@"
L_hdr_3 == <<"@", "@", " ", "-", "7", ",", "0", " ", "+", "9", " ", "@", "@", " ", "f">>   \* "@@ -7,0 +9 @@ f"
L_hdr_4 == <<"@", "@", " ", "-", "6", " ", "+", "8", " ", "@", "@">>   \* "@@ -6 +8 @@"
L_hdr_bad == <<"@", "@", " ", "-", "1", " ", "@", "@">>   \* "@@ -1 @@"
L_add_a == <<"+", "a">>        \* "+a"
L_del_b == <<"-", "b">>        \* "-b"
L_add_cc == <<"+", "c", "c">>  \* "+cc"
L_ctx == <<" ", "c">>          \* " c"

\* a file section with a "diff --git" line, one hunk
SecX == <<L_git_x, L_old_x, L_new_x, L_hdr_1, L_add_a>>
\* two file sections with "diff --git" lines, one hunk each
SecYW == <<L_git_y, L_old_y, L_new_y, L_hdr_2, L_del_b, L_add_cc,
           L_git_w, L_new_w, L_hdr_3, L_del_b, L_add_cc>>
\* a file section without a "diff --git" line (plain diff -u output)
SecZ == <<L_old_z, L_new_z, L_hdr_1, L_add_a>>
\* one more hunk of the current file
SecHunk == <<L_hdr_4, L_ctx>>
\* a line that starts with "@@" and is no hunk header
SecBad == <<L_hdr_bad, L_add_a>>

Sections == {SecX, SecYW, SecZ, SecHunk, SecBad}

MaxSections == 2
MaxBudgetSteps == 9

Budgets == {1} \cup {8 * k : k \in 1..MaxBudgetSteps}

\* the lines of the chosen sections, one after the other
RECURSIVE flatten(_)
flatten(ss) == IF Len(ss) = 0 THEN <<>> ELSE ss[1] \o flatten(Tail(ss))

\* the text of the lines, each line ended by eol
RECURSIVE render(_, _)
render(lines, eol) ==
    IF Len(lines) = 0 THEN <<>> ELSE lines[1] \o eol \o render(Tail(lines), eol)

SectionSeqs == UNION {[1..n -> Sections] : n \in 0..MaxSections}

Eols == {<<NL>>, <<CR, NL>>}

-----------------------------------------------------------------------------
(* Specification SpecText: the pure functions applied to every input *)

InitText ==
    /\ \E ss \in SectionSeqs, eol \in Eols : diff = render(flatten(ss), eol)
    /\ max_chunk_size \in Budgets
    /\ hunks = <<>>
    /\ chunks = <<>>
    /\ plan = <<>>
    /\ tpc = "input"
    /\ api_key_set = TRUE /\ cache = <<>> /\ pc = "off" /\ call = <<>>
    /\ rchunks = <<>> /\ ci = 0 /\ tasks = <<>> /\ all_comments = <<>>
    /\ errors = <<>> /\ result = <<>> /\ log = {} /\ inv = 0 /\ ncalls = 0
    /\ nfail = 0 /\ lru = <<>> /\ known = <<>> /\ inflight = {}
    /\ scan = <<>> /\ http = <<>> /\ agg = <<>> /\ conc = <<>>

ParseDiff ==
    /\ tpc = "input"
    /\ hunks' = parse_unified_diff(diff)
    /\ tpc' = "parsed"
    /\ UNCHANGED <<diff, max_chunk_size, chunks, plan>>
    /\ UNCHANGED reviewVars
    /\ UNCHANGED otherVars

ChunkDiff ==
    /\ tpc = "parsed"
    /\ chunks' = chunk_diff(diff, max_chunk_size)
    /\ tpc' = "chunked"
    /\ UNCHANGED <<diff, max_chunk_size, hunks, plan>>
    /\ UNCHANGED reviewVars
    /\ UNCHANGED otherVars

PlanChunks ==
    /\ tpc = "chunked"
    /\ plan' = review_chunks(diff)
    /\ tpc' = "planned"
    /\ UNCHANGED <<diff, max_chunk_size, hunks, chunks>>
    /\ UNCHANGED reviewVars
    /\ UNCHANGED otherVars

NextText == ParseDiff \/ ChunkDiff \/ PlanChunks

SpecText == InitText /\ [][NextText]_vars

-----------------------------------------------------------------------------
(* Specification SpecScan: the while loop of parse_unified_diff, one         *)
(* iteration at a time                                                       *)

\* parse_unified_diff(diff) is called: lines, hunks, current_file and i are set
InitScan ==
    /\ \E ss \in SectionSeqs, eol \in Eols : diff = render(flatten(ss), eol)
    /\ scan = [lines |-> split(diff, NL), i |-> 1, current_file |-> None,
               hunks |-> <<>>, returned |-> FALSE]
    /\ max_chunk_size = 0 /\ hunks = <<>> /\ chunks = <<>> /\ plan = <<>>
    /\ tpc = "off"
    /\ api_key_set = TRUE /\ cache = <<>> /\ pc = "off" /\ call = <<>>
    /\ rchunks = <<>> /\ ci = 0 /\ tasks = <<>> /\ all_comments = <<>>
    /\ errors = <<>> /\ result = <<>> /\ log = {} /\ inv = 0 /\ ncalls = 0
    /\ nfail = 0 /\ lru = <<>> /\ known = <<>> /\ inflight = {}
    /\ http = <<>> /\ agg = <<>> /\ conc = <<>>

\* one iteration of "while i < len(lines)"
ScanStep ==
    /\ ~scan.returned
    /\ scan.i <= Len(scan.lines)
    /\ LET st == parse_step(scan.lines, scan.i, scan.current_file, scan.hunks)
       IN scan' = [scan EXCEPT !.i = st.i, !.current_file = st.current_file,
                               !.hunks = st.hunks]
    /\ UNCHANGED <<textVars, reviewVars, http, agg, conc>>

\* the loop condition is false: return hunks
ScanReturn ==
    /\ ~scan.returned
    /\ scan.i > Len(scan.lines)
    /\ scan' = [scan EXCEPT !.returned = TRUE]
    /\ UNCHANGED <<textVars, reviewVars, http, agg, conc>>

NextScan == ScanStep \/ ScanReturn

SpecScan == InitScan /\ [][NextScan]_vars /\ WF_vars(NextScan)

-----------------------------------------------------------------------------
(* The result cache: @alru_cache(maxsize=32) around review_diff.  The cache  *)
(* is an ordered dict from the call's arguments to the task's future, least *)
(* recently used first.                                                     *)

\* maxsize=32 in the source; scaled so that the model's keys overflow it
maxsize == 2

cache_index(c, k) ==
    IF \E i \in 1..Len(c) : c[i].key = k
    THEN CHOOSE i \in 1..Len(c) : c[i].key = k
    ELSE 0

remove_at(c, i) == SubSeq(c, 1, i - 1) \o SubSeq(c, i + 1, Len(c))

\* a hit: the entry moves to the most recently used end
cache_move_to_end(c, k) ==
    LET i == cache_index(c, k) IN Append(remove_at(c, i), c[i])

\* a miss: the pending future is stored, and the least recently used entry is
\* dropped when the cache holds more than maxsize entries
cache_insert(c, k) ==
    LET c2 == Append(c, [key |-> k, done |-> FALSE, value |-> None])
    IN IF Len(c2) > maxsize THEN Tail(c2) ELSE c2

\* the task's done callback: the future of the entry gets the result
cache_set_result(c, k, v) ==
    [i \in 1..Len(c) |->
        IF c[i].key = k /\ ~c[i].done
        THEN [key |-> k, done |-> TRUE, value |-> Some(v)]
        ELSE c[i]]

\* the task's done callback when the task raised: the entry is removed
cache_pop(c, k) ==
    LET i == cache_index(c, k) IN IF i = 0 THEN c ELSE remove_at(c, i)

\* review_diff without the cache decorator: every call is a miss
review_diff_uncached(c, k) == None

\* review_diff(diff, context) looked up under its arguments: None on a miss,
\* else Some(the entry's index)
review_diff_lookup(c, k) ==
    LET i == cache_index(c, k) IN IF i = 0 THEN None ELSE Some(i)

-----------------------------------------------------------------------------
(* Inputs of the review: diffs, contexts and what the analyzers answer *)

Ctx_fix == <<"f", "i", "x">>   \* "fix"

M_critical == <<"c", "r", "i", "t", "i", "c", "a", "l">>                \* "critical"
M_null_deref == <<"n", "u", "l", "l", " ", "d", "e", "r", "e", "f">>    \* "null deref"
M_leak == <<"l", "e", "a", "k">>                                        \* "leak"
M_naming == <<"n", "a", "m", "i", "n", "g">>                            \* "naming"
M_check == <<"c", "h", "e", "c", "k">>                                  \* "check"

\* one file, one hunk: no longer than max_diff_size
DiffSmall == render(SecX, <<NL>>)
\* three files, one hunk each: longer than max_diff_size, two chunks
DiffBig == render(SecX \o SecYW, <<NL>>)

\* the empty diff text
DiffEmpty == <<>>

\* longer than max_diff_size, and no hunk in it: "@@" lines with no "+++ b/" line
\* before them, some of them outside the hunk-header grammar
DiffNoHunks == render(SecHunk \o SecBad \o SecHunk \o SecBad \o SecHunk, <<NL>>)

Keys == {<<DiffSmall, <<>>>>, <<DiffSmall, Ctx_fix>>, <<DiffBig, <<>>>>, <<DiffEmpty, <<>>>>,
         <<DiffNoHunks, <<>>>>}

\* the file a chunk text speaks of first
first_file(chunk) ==
    LET ls == split(chunk, NL)
    IN IF startswith(ls[1], S_File)
       THEN SubSeq(ls[1], Len(S_File) + 1, Len(ls[1]))
       ELSE <<"x">>

\* The issue list analyzer j answers for a chunk when its request succeeds.
\* logic and security report the same place; security leaves out one severity
\* and gives one that is none of high/medium/low, with no file and no line;
\* performance finds nothing.
Answer(j, chunk) ==
    CASE j = 1 -> <<[file |-> first_file(chunk), line |-> 11, severity |-> S_high,
                     message |-> M_null_deref, suggestion |-> M_check]>>
      [] j = 2 -> <<[file |-> first_file(chunk), line |-> 11, message |-> M_null_deref],
                    [severity |-> M_critical, message |-> M_leak]>>
      [] j = 3 -> <<>>
      [] j = 4 -> <<[file |-> first_file(chunk), line |-> 3, severity |-> S_low,
                     message |-> M_naming]>>

MaxCalls == 4
MaxFailures == 2

-----------------------------------------------------------------------------
(* Specification Spec: review_diff called again and again *)

NoCall == [key |-> <<<<>>, <<>>>>, hit |-> FALSE, inv0 |-> 0, prior |-> None]

Init ==
    /\ diff = <<>> /\ max_chunk_size = 0 /\ hunks = <<>> /\ chunks = <<>>
    /\ plan = <<>> /\ tpc = "off"
    /\ api_key_set \in BOOLEAN
    /\ cache = <<>>
    /\ pc = "idle"
    /\ call = NoCall
    /\ rchunks = <<>>
    /\ ci = 0
    /\ tasks = <<>>
    /\ all_comments = <<>>
    /\ errors = <<>>
    /\ result = None
    /\ log = {}
    /\ inv = 0
    /\ ncalls = 0
    /\ nfail = 0
    /\ lru = <<>>
    /\ known = [k \in Keys |-> None]
    /\ inflight = {}
    /\ scan = <<>> /\ http = <<>> /\ agg = <<>> /\ conc = <<>>

\* the keys of the most recent calls, least recent first, at most maxsize
lru_touch(l, k) ==
    LET l2 == Append(SelectSeq(l, LAMBDA x : x # k), k)
    IN IF Len(l2) > maxsize THEN Tail(l2) ELSE l2

in_seq(l, k) == \E i \in 1..Len(l) : l[i] = k

\* the gather call for chunk i of cs: the four coroutines start; without an
\* API key each raises before its first await
Dispatch(cs, i, calls) ==
    /\ rchunks' = cs
    /\ ci' = i
    /\ tasks' = [j \in 1..NumAgents |->
                    IF api_key_set THEN None ELSE Some(agent(j, FALSE, None))]
    /\ log' = IF api_key_set THEN calls
              ELSE calls \cup {[chunk |-> i, agent |-> j, failed |-> TRUE,
                              comments |-> <<>>] : j \in 1..NumAgents}
    /\ inflight' = IF api_key_set
                   THEN inflight \cup {[chunk |-> i, agent |-> j] : j \in 1..NumAgents}
                   ELSE inflight
    /\ inv' = inv + NumAgents
    /\ pc' = "gather"

\* orchestrate_review returns and the task's done callback stores the result
Complete(c, k, comments, errs, recent) ==
    LET r == build_result(comments, errs)
    IN /\ result' = Some(r)
       /\ cache' = cache_set_result(c, k, r)
       /\ known' = [x \in Keys |->
                      IF x = k THEN Some(r)
                      ELSE IF in_seq(recent, x) THEN known[x] ELSE None]
       /\ pc' = "returned"
       /\ rchunks' = <<>>
       /\ ci' = 0
       /\ tasks' = <<>>

\* review_diff(diff, context) is called: a cache hit returns the stored
\* result; a miss starts orchestrate_review, which runs up to its first await
CallReviewDiff ==
    /\ pc \in {"idle", "returned", "raised"}
    /\ ncalls < MaxCalls
    /\ \E k \in Keys :
         LET found == review_diff_lookup(cache, k)
             cs == review_chunks(k[1])
         IN /\ call' = [key |-> k, hit |-> found # None, inv0 |-> inv,
                        prior |-> IF in_seq(lru, k) THEN known[k] ELSE None]
            /\ ncalls' = ncalls + 1
            /\ lru' = lru_touch(lru, k)
            /\ all_comments' = <<>>
            /\ errors' = <<>>
            /\ IF found # None
               THEN /\ cache' = cache_move_to_end(cache, k)
                    /\ result' = cache[found[1]].value
                    /\ pc' = "returned"
                    /\ known' = [x \in Keys |-> IF in_seq(lru', x) THEN known[x] ELSE None]
                    /\ log' = {}
                    /\ UNCHANGED <<rchunks, ci, tasks, inv, inflight>>
               ELSE IF Len(cs) = 0
               THEN /\ Complete(cache_insert(cache, k), k, <<>>, <<>>, lru_touch(lru, k))
                    /\ log' = {}
                    /\ UNCHANGED <<inv, inflight>>
               ELSE /\ cache' = cache_insert(cache, k)
                    /\ known' = [x \in Keys |-> IF in_seq(lru', x) THEN known[x] ELSE None]
                    /\ result' = None
                    /\ Dispatch(cs, 1, {})
    /\ UNCHANGED <<api_key_set, nfail>>
    /\ UNCHANGED textVars
    /\ UNCHANGED otherVars

\* the completion request of analyzer j ends: with an answer, or with an error
\* the analyzer catches, returning []
AgentResponds ==
    /\ pc = "gather"
    /\ \E j \in 1..NumAgents, ok \in BOOLEAN :
         /\ tasks[j] = None
         /\ ok \/ nfail < MaxFailures
         /\ LET resp == IF ok THEN Some(Answer(j, rchunks[ci])) ELSE None
                r == agent(j, TRUE, resp)
            IN /\ tasks' = [tasks EXCEPT ![j] = Some(r)]
               /\ log' = log \cup {[chunk |-> ci, agent |-> j, failed |-> ~ok,
                                    comments |-> r.value]}
         /\ inflight' = inflight \ {[chunk |-> ci, agent |-> j]}
         /\ nfail' = IF ok THEN nfail ELSE nfail + 1
    /\ UNCHANGED <<api_key_set, cache, pc, call, rchunks, ci, all_comments, errors,
                   result, inv, ncalls, lru, known>>
    /\ UNCHANGED textVars
    /\ UNCHANGED otherVars

\* all four coroutines are done: gather returns, the results are collected, and
\* the loop goes on to the next chunk or orchestrate_review returns
GatherReturns ==
    /\ pc = "gather"
    /\ gather_ready(tasks)
    /\ LET g == gather([j \in 1..NumAgents |-> outcome_of(tasks[j])])
       IN IF g.raised
          THEN /\ result' = None
               /\ cache' = cache_pop(cache, call.key)
               /\ pc' = "raised"
               /\ UNCHANGED <<rchunks, ci, tasks, all_comments, errors, log, inv, known, inflight>>
          ELSE LET st == collect(g.results, 1, all_comments, errors)
               IN /\ all_comments' = st.all_comments
                  /\ errors' = st.errors
                  /\ IF ci < Len(rchunks)
                     THEN /\ Dispatch(rchunks, ci + 1, log)
                          /\ UNCHANGED <<cache, result, known>>
                     ELSE /\ Complete(cache, call.key, st.all_comments, st.errors, lru)
                          /\ UNCHANGED <<log, inv, inflight>>
    /\ UNCHANGED <<api_key_set, call, ncalls, nfail, lru>>
    /\ UNCHANGED textVars
    /\ UNCHANGED otherVars

Next == CallReviewDiff \/ AgentResponds \/ GatherReturns

Spec == Init /\ [][Next]_vars


-----------------------------------------------------------------------------
(* Specification SpecConc: review_diff calls in flight at the same time.
   alru_cache keeps, per key, the future of the task it created for the first
   call with that key; a call that finds a future awaits it, a call that finds
   none creates a task running orchestrate_review and stores its future.    *)

MaxCallers == 4

ConcKeys == {<<DiffSmall, <<>>>>, <<DiffSmall, Ctx_fix>>, <<DiffBig, <<>>>>}

\* a miss: the future f is stored under the key, and the least recently used
\* entry is dropped when the cache holds more than maxsize entries
alru_insert(c, k, f) ==
    LET c2 == Append(c, [key |-> k, fut |-> f])
    IN IF Len(c2) > maxsize THEN Tail(c2) ELSE c2

\* the task alru_cache creates for review_diff(*k): not yet scheduled
new_task(k) ==
    [key |-> k, chunks |-> <<>>, ci |-> 0, all_comments |-> <<>>, errors |-> <<>>,
     done |-> FALSE, result |-> None]

\* callers are numbered in their order of arrival
InitConc ==
    /\ conc = [cache |-> <<>>, futs |-> <<>>, callers |-> <<>>, inv |-> 0]
    /\ diff = <<>> /\ max_chunk_size = 0 /\ hunks = <<>> /\ chunks = <<>>
    /\ plan = <<>> /\ tpc = "off"
    /\ api_key_set = TRUE /\ cache = <<>> /\ pc = "off" /\ call = <<>>
    /\ rchunks = <<>> /\ ci = 0 /\ tasks = <<>> /\ all_comments = <<>>
    /\ errors = <<>> /\ result = <<>> /\ log = {} /\ inv = 0 /\ ncalls = 0
    /\ nfail = 0 /\ lru = <<>> /\ known = <<>> /\ inflight = {}
    /\ scan = <<>> /\ http = <<>> /\ agg = <<>>

concRest == <<textVars, reviewVars, scan, http, agg>>

\* a caller awaits review_diff(*k): the wrapper of alru_cache runs up to its
\* return or its "await asyncio.shield(fut)"
ConcCall ==
    /\ Len(conc.callers) < MaxCallers
    /\ \E k \in ConcKeys :
         LET found == review_diff_lookup(conc.cache, k)
         IN IF found # None
            THEN LET f == conc.cache[found[1]].fut
                     t == conc.futs[f]
                 IN conc' = [conc EXCEPT
                       !.cache = cache_move_to_end(conc.cache, k),
                       !.callers = Append(conc.callers,
                           [key |-> k, fut |-> f,
                            pc |-> IF t.done THEN "returned" ELSE "awaiting",
                            result |-> t.result])]
            ELSE LET f == Len(conc.futs) + 1
                 IN conc' = [conc EXCEPT
                       !.futs = Append(conc.futs, new_task(k)),
                       !.cache = alru_insert(conc.cache, k, f),
                       !.callers = Append(conc.callers,
                           [key |-> k, fut |-> f, pc |-> "awaiting", result |-> None])]
    /\ UNCHANGED concRest

\* the task of future f after the chunk loop has ended for the last chunk (or
\* for none): orchestrate_review returns and the done callback sets the future
task_return(t, comments, errs) ==
    [t EXCEPT !.all_comments = comments, !.errors = errs, !.done = TRUE,
              !.result = Some(build_result(comments, errs))]

\* the task of future f is scheduled: orchestrate_review runs up to the gather
\* of its first chunk
TaskStarts ==
    \E f \in 1..Len(conc.futs) :
        LET t == conc.futs[f]
            cs == review_chunks(t.key[1])
        IN /\ ~t.done /\ t.ci = 0
           /\ IF Len(cs) = 0
              THEN conc' = [conc EXCEPT !.futs[f] = task_return(t, <<>>, <<>>)]
              ELSE conc' = [conc EXCEPT !.futs[f] = [t EXCEPT !.chunks = cs, !.ci = 1],
                                        !.inv = conc.inv + NumAgents]
           /\ UNCHANGED concRest

\* the gather of the task of future f returns (the request of the logic
\* analyzer having succeeded or failed): the results are collected and the
\* loop goes on to the next chunk, or orchestrate_review returns
TaskGatherReturns ==
    \E f \in 1..Len(conc.futs), ok \in BOOLEAN :
        LET t == conc.futs[f]
            results == [j \in 1..NumAgents |->
                          agent(j, TRUE, IF j = 1 /\ ~ok THEN None
                                         ELSE Some(Answer(j, t.chunks[t.ci])))]
            st == collect(gather(results).results, 1, t.all_comments, t.errors)
        IN /\ ~t.done /\ t.ci > 0
           /\ IF t.ci < Len(t.chunks)
              THEN conc' = [conc EXCEPT
                      !.futs[f] = [t EXCEPT !.all_comments = st.all_comments,
                                            !.errors = st.errors, !.ci = t.ci + 1],
                      !.inv = conc.inv + NumAgents]
              ELSE conc' = [conc EXCEPT
                      !.futs[f] = task_return(t, st.all_comments, st.errors)]
           /\ UNCHANGED concRest

\* a caller awaiting a future that is done resumes with its result
CallerResumes ==
    \E a \in 1..Len(conc.callers) :
        LET c == conc.callers[a]
        IN /\ c.pc = "awaiting"
           /\ conc.futs[c.fut].done
           /\ conc' = [conc EXCEPT !.callers[a] =
                          [c EXCEPT !.pc = "returned", !.result = conc.futs[c.fut].result]]
           /\ UNCHANGED concRest

NextConc == ConcCall \/ TaskStarts \/ TaskGatherReturns \/ CallerResumes

SpecConc == InitConc /\ [][NextConc]_vars

-----------------------------------------------------------------------------
(* Specification SpecAgg: orchestrate_review after the chunk loop, one       *)
(* statement at a time, for every list of findings                           *)

F_x == <<"x">>           \* "x"
F_y == <<"y">>           \* "y"

\* two messages of 101 characters that agree on the first 100
M_long_a == [k \in 1..101 |-> IF k = 101 THEN "a" ELSE "m"]
M_long_b == [k \in 1..101 |-> IF k = 101 THEN "b" ELSE "m"]

\* the findings the analyzers may have returned
FindingPool ==
    { ReviewComment(S_logic, S_high, F_x, Some(11), M_null_deref, Some(M_check)),
      ReviewComment(S_security, S_high, F_x, Some(11), M_null_deref, None),
      ReviewComment(S_style, S_high, F_x, Some(11), M_naming, None),
      ReviewComment(S_security, M_critical, S_unknown, None, M_leak, None),
      ReviewComment(S_performance, S_medium, F_y, Some(0), M_long_a, None),
      ReviewComment(S_logic, S_medium, F_y, Some(0), M_long_b, None),
      ReviewComment(S_style, S_medium, F_y, None, M_naming, None),
      ReviewComment(S_style, S_low, F_x, Some(3), M_naming, None) }

MaxComments == 3
MaxErrors == 2

FindingSeqs == UNION {[1..n -> FindingPool] : n \in 0..MaxComments}

\* the errors list after n analyzer calls raised
ErrorSeqs ==
    {[k \in 1..n |-> S_Agent \o agent_names[((k - 1) % NumAgents) + 1] \o S_failed
                     \o S_api_key_error] : n \in 0..MaxErrors}

\* the chunk loop has ended with all_comments and errors
InitAgg ==
    /\ all_comments \in FindingSeqs
    /\ errors \in ErrorSeqs
    /\ agg = [pc |-> "collected", unique_comments |-> <<>>, stats |-> <<>>,
              summary |-> <<>>]
    /\ result = None
    /\ diff = <<>> /\ max_chunk_size = 0 /\ hunks = <<>> /\ chunks = <<>>
    /\ plan = <<>> /\ tpc = "off"
    /\ api_key_set = TRUE /\ cache = <<>> /\ pc = "off" /\ call = <<>>
    /\ rchunks = <<>> /\ ci = 0 /\ tasks = <<>> /\ log = {} /\ inv = 0
    /\ ncalls = 0 /\ nfail = 0 /\ lru = <<>> /\ known = <<>> /\ inflight = {}
    /\ scan = <<>> /\ http = <<>> /\ conc = <<>>

aggRest == <<textVars, api_key_set, cache, pc, call, rchunks, ci, tasks, all_comments,
             errors, log, inv, ncalls, nfail, lru, known, inflight, scan, http, conc>>

\* unique_comments = _deduplicate_comments(all_comments)
Deduplicate ==
    /\ agg.pc = "collected"
    /\ agg' = [agg EXCEPT !.pc = "deduplicated",
                          !.unique_comments = _deduplicate_comments(all_comments)]
    /\ UNCHANGED <<aggRest, result>>

\* unique_comments.sort(key=...)
SortComments ==
    /\ agg.pc = "deduplicated"
    /\ agg' = [agg EXCEPT !.pc = "sorted",
                          !.unique_comments = sort_comments(agg.unique_comments)]
    /\ UNCHANGED <<aggRest, result>>

\* stats = _calculate_stats(unique_comments)
CalculateStats ==
    /\ agg.pc = "sorted"
    /\ agg' = [agg EXCEPT !.pc = "counted",
                          !.stats = _calculate_stats(agg.unique_comments)]
    /\ UNCHANGED <<aggRest, result>>

\* summary = _generate_summary(unique_comments, stats), and the note
GenerateSummary ==
    /\ agg.pc = "counted"
    /\ agg' = [agg EXCEPT !.pc = "summarized",
                          !.summary = with_note(_generate_summary(agg.unique_comments,
                                                                  agg.stats), errors)]
    /\ UNCHANGED <<aggRest, result>>

\* return ReviewResult(summary=..., comments=..., stats=..., errors=errors)
ReturnResult ==
    /\ agg.pc = "summarized"
    /\ result' = Some(ReviewResult(agg.summary, agg.unique_comments, agg.stats, errors))
    /\ agg' = [agg EXCEPT !.pc = "returned"]
    /\ UNCHANGED aggRest

NextAgg == Deduplicate \/ SortComments \/ CalculateStats \/ GenerateSummary \/ ReturnResult

SpecAgg == InitAgg /\ [][NextAgg]_vars

-----------------------------------------------------------------------------
(* Specification SpecHttp: the two review endpoints of app/main.py *)

\* int(os.getenv('MAX_DIFF_SIZE', 100000)), scaled
MAX_DIFF_SIZE == 3

MaxHttpLen == 4

\* the diff texts of the requests: whitespace and other characters
HttpDiffs == UNION {[1..n -> {" ", "a"}] : n \in 0..MaxHttpLen}

\* str.strip()
strip(text) ==
    LET keep == {k \in 1..Len(text) : text[k] # " "}
    IN IF keep = {} THEN <<>>
       ELSE SubSeq(text, CHOOSE k \in keep : \A k2 \in keep : k <= k2,
                         CHOOSE k \in keep : \A k2 \in keep : k2 <= k)

\* the exceptions a handler sees
HTTPException(status_code) == [type |-> "HTTPException", status_code |-> status_code]
ValueError == [type |-> "ValueError", status_code |-> 0]
OtherException == [type |-> "Exception", status_code |-> 0]

\* review_raw_diff: the validation of the request, None or the exception raised
raw_diff_validate(d) ==
    IF Len(d) = 0 \/ Len(strip(d)) = 0 THEN Some(HTTPException(400))
    ELSE IF Len(d) > MAX_DIFF_SIZE THEN Some(HTTPException(413))
    ELSE None

\* review_raw_diff: what its except clauses make of an exception e of the body
raw_diff_except(e) ==
    IF e.type = "HTTPException" THEN e ELSE HTTPException(500)

\* review_github_pr: the size check of the fetched diff
pr_size_check(d) ==
    IF Len(d) > MAX_DIFF_SIZE THEN Some(HTTPException(413)) ELSE None

\* review_github_pr: what its except clauses make of an exception e of the body
pr_except(e) ==
    IF e.type = "ValueError" THEN HTTPException(400) ELSE HTTPException(500)

\* a request arrives: POST /review/diff with a diff, or POST /review/pr with a
\* URL (well-formed or not) of a pull request whose diff is the given text
InitHttp ==
    /\ \E ep \in {"diff", "pr"}, d \in HttpDiffs, url_ok \in BOOLEAN :
         /\ ep = "diff" => url_ok
         /\ http = [endpoint |-> ep, diff |-> d, url_ok |-> url_ok, pc |-> "received",
                    has_diff |-> (ep = "diff"), reviewed |-> FALSE, status_code |-> 0]
    /\ diff = <<>> /\ max_chunk_size = 0 /\ hunks = <<>> /\ chunks = <<>>
    /\ plan = <<>> /\ tpc = "off"
    /\ api_key_set = TRUE /\ cache = <<>> /\ pc = "off" /\ call = <<>>
    /\ rchunks = <<>> /\ ci = 0 /\ tasks = <<>> /\ all_comments = <<>>
    /\ errors = <<>> /\ result = <<>> /\ log = {} /\ inv = 0 /\ ncalls = 0
    /\ nfail = 0 /\ lru = <<>> /\ known = <<>> /\ inflight = {}
    /\ scan = <<>> /\ agg = <<>> /\ conc = <<>>

httpRest == <<textVars, reviewVars, scan, agg, conc>>

\* the handler ends by raising e
Respond(e) == http' = [http EXCEPT !.pc = "responded", !.status_code = e.status_code]

\* review_raw_diff up to "await review_diff(...)"
ReviewRawDiff ==
    /\ http.pc = "received" /\ http.endpoint = "diff"
    /\ LET v == raw_diff_validate(http.diff)
       IN IF v # None
          THEN Respond(raw_diff_except(v[1]))
          ELSE http' = [http EXCEPT !.pc = "reviewing", !.reviewed = TRUE]
    /\ UNCHANGED httpRest

\* review_github_pr up to the request of fetch_pr_diff; parse_pr_url raises
\* ValueError for a malformed URL
ReviewGithubPr ==
    /\ http.pc = "received" /\ http.endpoint = "pr"
    /\ IF ~http.url_ok
       THEN Respond(pr_except(ValueError))
       ELSE http' = [http EXCEPT !.pc = "fetching"]
    /\ UNCHANGED httpRest

\* fetch_pr_diff returns the diff or raises; then the size check, and the
\* request of fetch_pr_metadata
FetchReturns ==
    /\ http.pc = "fetching"
    /\ \E ok \in BOOLEAN :
         IF ~ok THEN Respond(pr_except(OtherException))
         ELSE LET v == pr_size_check(http.diff)
              IN IF v # None
                 THEN http' = [http EXCEPT !.pc = "responded", !.has_diff = TRUE,
                                           !.status_code = pr_except(v[1]).status_code]
                 ELSE http' = [http EXCEPT !.pc = "metadata", !.has_diff = TRUE]
    /\ UNCHANGED httpRest

\* fetch_pr_metadata returns or raises (then context = ""); review_diff is called
MetadataReturns ==
    /\ http.pc = "metadata"
    /\ http' = [http EXCEPT !.pc = "reviewing", !.reviewed = TRUE]
    /\ UNCHANGED httpRest

\* review_diff returns the report, or raises
ReviewReturns ==
    /\ http.pc = "reviewing"
    /\ \E ok \in BOOLEAN :
         IF ok THEN http' = [http EXCEPT !.pc = "responded", !.status_code = 200]
         ELSE IF http.endpoint = "diff" THEN Respond(raw_diff_except(OtherException))
         ELSE Respond(pr_except(OtherException))
    /\ UNCHANGED httpRest

NextHttp == ReviewRawDiff \/ ReviewGithubPr \/ FetchReturns \/ MetadataReturns \/ ReviewReturns

SpecHttp == InitHttp /\ [][NextHttp]_vars

\* C19: on both endpoints a diff (a text that is not blank) longer than the
\* maximum input size is answered with HTTP 413, and review_diff (parsing,
\* analyzers) is not called for it.
C19_OversizeDiffRejectedWith413 ==
    (/\ http.pc = "responded" /\ http.has_diff
     /\ Len(strip(http.diff)) > 0 /\ Len(http.diff) > MAX_DIFF_SIZE) =>
        /\ http.status_code = 413
        /\ ~http.reviewed

-----------------------------------------------------------------------------
(* Properties of the aggregation (specification SpecAgg) *)

\* the first 100 characters of a message
First100(msg) == IF Len(msg) <= 100 THEN msg ELSE [k \in 1..100 |-> msg[k]]

\* two findings are equivalent: same file, same line, same first 100
\* characters of the message
SameKey(a, b) ==
    a.file = b.file /\ a.line = b.line /\ First100(a.message) = First100(b.message)

\* the subsequence of xs made of the first finding of each key
FirstOfEachKey(xs) ==
    LET idx == {i \in 1..Len(xs) : \A j \in 1..(i - 1) : ~SameKey(xs[j], xs[i])}
        at(k) == CHOOSE i \in idx : Cardinality({j \in idx : j < i}) = k - 1
    IN [k \in 1..Cardinality(idx) |-> xs[at(k)]]

\* C13: _deduplicate_comments returns the first finding of each key (file, line,
\* first 100 characters of the message) in input order, with the attribution of
\* that first finding; no two findings of the output share a key; deduplicating
\* the output again changes nothing.
C13_DedupFirstSeenWins ==
    agg.pc = "deduplicated" =>
        LET u == agg.unique_comments
        IN /\ u = FirstOfEachKey(all_comments)
           /\ \A a, b \in 1..Len(u) : a # b => ~SameKey(u[a], u[b])
           /\ _deduplicate_comments(u) = u

\* the findings of two analyzers, with messages that differ only after the 100th
\* character, collided and the earlier one, of the logic analyzer, survived
C13_Witness ==
    /\ agg.pc = "deduplicated"
    /\ Len(all_comments) = 3
    /\ all_comments[1].agent = S_logic /\ all_comments[1].message = M_long_b
    /\ all_comments[2].agent = S_performance /\ all_comments[2].message = M_long_a
    /\ SameKey(all_comments[1], all_comments[2])
    /\ Len(agg.unique_comments) = 2
    /\ agg.unique_comments[1] = all_comments[1]
    /\ agg.unique_comments[2] = all_comments[3]

\* the sum of the values of a dict
RECURSIVE SumOver(_, _)
SumOver(f, S) ==
    IF S = {} THEN 0
    ELSE LET x == CHOOSE x \in S : TRUE IN f[x] + SumOver(f, S \ {x})

SumValues(f) == SumOver(f, DOMAIN f)

\* C14: in the report orchestrate_review returns, stats.total_comments is the
\* number of findings of the report, and the values of by_severity and the
\* values of by_agent each sum to total_comments; also for no findings and for
\* findings with a severity that is none of high, medium and low.
C14_StatsAddUp ==
    (agg.pc = "returned" /\ result # None) =>
        LET r == result[1]
        IN /\ r.stats.total_comments = Len(r.comments)
           /\ SumValues(r.stats.by_severity) = r.stats.total_comments
           /\ SumValues(r.stats.by_agent) = r.stats.total_comments

\* a report of three findings was returned, one of them of severity "critical"
C14_Witness ==
    /\ agg.pc = "returned" /\ result # None
    /\ Len(result[1].comments) = 3
    /\ result[1].stats.total_comments = 3
    /\ M_critical \in DOMAIN result[1].stats.by_severity
    /\ result[1].stats.by_severity[M_critical] = 1
    /\ Cardinality(DOMAIN result[1].stats.by_severity) >= 2

\* the rank of a severity: high 0, medium 1, low 2, anything else 3
SeverityRank(sev) ==
    CASE sev = S_high -> 0 [] sev = S_medium -> 1 [] sev = S_low -> 2 [] OTHER -> 3

\* the line of a finding, an absent line counted as 0
LineOrZero(c) == IF c.line = None THEN 0 ELSE c.line[1]

\* a comes before b in (severity rank, file, line)
KeyBefore(a, b) ==
    \/ SeverityRank(a.severity) < SeverityRank(b.severity)
    \/ /\ SeverityRank(a.severity) = SeverityRank(b.severity)
       /\ str_lt(a.file, b.file)
    \/ /\ SeverityRank(a.severity) = SeverityRank(b.severity)
       /\ a.file = b.file
       /\ LineOrZero(a) < LineOrZero(b)

\* the place of the i-th element of d in the stable ordering of d
StablePlace(d, i) ==
    1 + Cardinality({j \in 1..Len(d) :
            \/ KeyBefore(d[j], d[i])
            \/ ~KeyBefore(d[i], d[j]) /\ j < i})

\* C15: the findings of the report are ordered by (severity rank, file, line
\* with an absent line as 0), and findings equal on that key keep the order
\* they had after deduplication.
C15_SortedAndStable ==
    agg.pc \in {"sorted", "counted", "summarized", "returned"} =>
        LET d == _deduplicate_comments(all_comments)
            u == agg.unique_comments
        IN /\ Len(u) = Len(d)
           /\ \A i \in 1..Len(d) : u[StablePlace(d, i)] = d[i]
           /\ \A k \in 1..(Len(u) - 1) : ~KeyBefore(u[k + 1], u[k])

\* three findings were sorted: a high one moved to the front, and two medium
\* ones of the same file, one with no line and one with line 0, kept their order
C15_Witness ==
    /\ agg.pc = "sorted"
    /\ Len(all_comments) = 3
    /\ all_comments[1].line = None /\ all_comments[1].severity = S_medium
    /\ all_comments[2].line = Some(0) /\ all_comments[2].severity = S_medium
    /\ all_comments[2].file = all_comments[1].file
    /\ all_comments[3].severity = S_high
    /\ agg.unique_comments = <<all_comments[3], all_comments[1], all_comments[2]>>

S_severity == <<" ", "s", "e", "v", "e", "r", "i", "t", "y">>   \* " severity"

\* the summary line that states the count n of the severity bucket sev
CountLine(n, sev) == S_indent \o str(n) \o <<" ">> \o sev \o S_severity

\* the lines of the summary between its header and the blank line that
\* precedes the key findings
CountLines(summary) ==
    LET ls == split(summary, NL)
        blank == CHOOSE e \in 2..Len(ls) : ls[e] = <<>> /\ \A k \in 2..(e - 1) : ls[k] # <<>>
    IN SubSeq(ls, 2, blank - 1)

\* C16: when the report has a finding, the summary is a header stating the
\* total count followed by exactly one count line for each severity bucket of
\* stats.by_severity with a non-zero count, whatever the severity value.
C16_SummaryCountsEveryBucket ==
    (agg.pc \in {"summarized", "returned"} /\ Len(agg.unique_comments) > 0) =>
        LET by_severity == agg.stats.by_severity
            buckets == {sev \in DOMAIN by_severity : by_severity[sev] > 0}
            lines == CountLines(agg.summary)
        IN /\ split(agg.summary, NL)[1]
                = S_found \o str(agg.stats.total_comments) \o S_issues
           /\ Len(lines) = Cardinality(buckets)
           /\ {lines[k] : k \in 1..Len(lines)}
                = {CountLine(by_severity[sev], sev) : sev \in buckets}

-----------------------------------------------------------------------------
(* Properties of the review (specification Spec) *)

\* the review that just ended ran the analyzers (it was not answered from the cache)
Reviewed == pc \in {"returned", "raised"} /\ ~call.hit

\* the analyzer calls of the review that failed, and those that succeeded
FailedCalls == {e \in log : e.failed}
SucceededCalls == {e \in log : ~e.failed}

\* the report holds a finding with the deduplication key of c
InReport(r, c) == \E i \in 1..Len(r.comments) : dedup_key(r.comments[i]) = dedup_key(c)

\* the report holds every finding of every call in es, up to deduplication
HoldsFindingsOf(r, es) ==
    \A e \in es : \A i \in 1..Len(e.comments) : InReport(r, e.comments[i])

\* the errors sequence the returned value carries
ReportErrors(r) == IF "errors" \in DOMAIN r THEN r.errors ELSE <<>>

\* C1: whatever analyzer calls fail, orchestrate_review returns a report, and
\* the report holds (up to deduplication) every finding of every analyzer call
\* that succeeded, in the chunk of a failure and in every other chunk.
C1_FailuresDoNotLoseFindings ==
    Reviewed => /\ pc = "returned"
                /\ result # None
                /\ HoldsFindingsOf(result[1], SucceededCalls)

\* a two-chunk review returned in which a call of the first chunk failed, a
\* sibling call of the first chunk found something, and so did a call of the
\* second chunk
C1_Witness ==
    /\ pc = "returned" /\ ~call.hit /\ result # None
    /\ \E f \in FailedCalls, s \in SucceededCalls, t \in SucceededCalls :
         /\ f.chunk = 1 /\ s.chunk = 1 /\ t.chunk = 2
         /\ Len(s.comments) > 0 /\ Len(t.comments) > 0
         /\ InReport(result[1], s.comments[1])
         /\ InReport(result[1], t.comments[1])

\* C2: when analyzer calls failed during a review, the returned report carries
\* an errors sequence with a string for each failure, and the failed calls
\* contributed no finding.
C2_FailureRecordedInErrors ==
    (pc = "returned" /\ ~call.hit) =>
        /\ Len(ReportErrors(result[1])) >= Cardinality(FailedCalls)
        /\ \A e \in FailedCalls : e.comments = <<>>

\* C3: when exactly one analyzer failed in every chunk and the others succeeded
\* in every chunk, the report holds the findings of the others and its errors
\* sequence has exactly one entry.
C3_OneFailingAnalyzerOneError ==
    (/\ pc = "returned" /\ ~call.hit
     /\ \E j \in 1..NumAgents : \A e \in log : e.failed <=> e.agent = j)
    => /\ HoldsFindingsOf(result[1], SucceededCalls)
       /\ Len(ReportErrors(result[1])) = 1

\* C4: a call of review_diff with the arguments of a completed call whose entry
\* has not been evicted returns a report equal to the earlier one, and the
\* number of analyzer invocations is what it was when the call began.
C4_RepeatedCallServedFromCache ==
    (pc \in {"returned", "raised"} /\ call.prior # None) =>
        /\ result = call.prior
        /\ inv = call.inv0

\* a repeated call returned the non-empty report of an earlier review whose
\* analyzers had run
C4_Witness ==
    /\ pc = "returned" /\ call.prior # None /\ call.hit
    /\ result = call.prior
    /\ inv = call.inv0 /\ inv > 0
    /\ Len(result[1].comments) > 0

\* the text ends with the given suffix
endswith(text, suffix) ==
    /\ Len(suffix) <= Len(text)
    /\ SubSeq(text, Len(text) - Len(suffix) + 1, Len(text)) = suffix

\* the note stating that n analyzer calls failed
FailureNote(n) == S_note \o str(n) \o S_note_end

\* C17: when analyzer calls failed during the review, the summary of the
\* returned report ends with a note stating how many failed, and that number is
\* the number of entries of errors; when none failed the summary has no note.
C17_SummaryNotesFailures ==
    (pc = "returned" /\ ~call.hit) =>
        LET r == result[1]
            n == Cardinality(FailedCalls)
        IN IF n > 0
           THEN /\ endswith(r.summary, FailureNote(n))
                /\ Len(ReportErrors(r)) = n
           ELSE ~endswith(r.summary, S_note_end)

\* C18: reviewing the empty diff text gives no hunks, a report with no
\* findings, the fixed no-issues summary and stats.total_comments = 0, whatever
\* the analyzers return.
C18_EmptyDiffEmptyReport ==
    (pc = "returned" /\ call.key[1] = DiffEmpty) =>
        /\ parse_unified_diff(call.key[1]) = <<>>
        /\ result # None
        /\ result[1].comments = <<>>
        /\ result[1].summary = S_no_issues
        /\ result[1].stats.total_comments = 0

\* C20: chunks are processed one at a time: the analyzer calls in flight all
\* belong to the chunk being processed, every call of the earlier chunks has
\* returned or failed, and at most as many calls are in flight as there are
\* analyzers.
C20_OneChunkAtATime ==
    /\ Cardinality(inflight) <= NumAgents
    /\ \A a \in inflight : a.chunk = ci
    /\ pc = "gather" =>
         \A c \in 1..(ci - 1), j \in 1..NumAgents :
            /\ [chunk |-> c, agent |-> j] \notin inflight
            /\ \E e \in log : e.chunk = c /\ e.agent = j

\* the four calls of the second chunk are in flight, and every call of the
\* first chunk has returned or failed
C20_Witness ==
    /\ pc = "gather" /\ ci = 2
    /\ inflight = {[chunk |-> 2, agent |-> j] : j \in 1..NumAgents}
    /\ \A j \in 1..NumAgents : \E e \in log : e.chunk = 1 /\ e.agent = j
    /\ \E e \in log : e.chunk = 1 /\ e.failed

\* C22: a review of a non-empty diff that reports the no-issues summary has
\* invoked each of the four analyzers at least once, also for a diff longer
\* than max_diff_size in which the parser finds no hunk.
C22_NoIssuesOnlyAfterAnalysis ==
    (/\ pc = "returned" /\ ~call.hit
     /\ call.key[1] # <<>>
     /\ startswith(result[1].summary, S_no_issues)) =>
        /\ inv - call.inv0 >= NumAgents
        /\ \A j \in 1..NumAgents : \E e \in log : e.agent = j

\* C23: a report computed while analyzer calls failed is not stored in the
\* cache under its (diff, context) key.
C23_DegradedReportNotCached ==
    (pc = "returned" /\ ~call.hit /\ FailedCalls # {}) =>
        cache_index(cache, call.key) = 0

\* the reviews of key k that are running
Running(k) == {f \in 1..Len(conc.futs) : conc.futs[f].key = k /\ ~conc.futs[f].done}

\* every entry of the cache holds the future of a review of the entry's key
CacheHoldsOwnKeys ==
    \A i \in 1..Len(conc.cache) : conc.futs[conc.cache[i].fut].key = conc.cache[i].key

\* C21: review_diff calls with the same key that are in flight at the same
\* time await one and the same computation (so orchestrate_review runs once
\* for them and they get the same report), and the cache never holds, under a
\* key, the result of a review of another key.
C21_SameKeySingleFlight ==
    /\ \A a, b \in 1..Len(conc.callers) :
         (/\ conc.callers[a].pc = "awaiting" /\ conc.callers[b].pc = "awaiting"
          /\ conc.callers[a].key = conc.callers[b].key) =>
              /\ conc.callers[a].fut = conc.callers[b].fut
              /\ Cardinality(Running(conc.callers[a].key)) <= 1
    /\ CacheHoldsOwnKeys

-----------------------------------------------------------------------------
(* Properties of the text pipeline (checked under SpecText) *)

Chunked == tpc \in {"chunked", "planned"}

\* the serialized hunks of the parsed diff, in order
HunkStrs == [i \in 1..Len(hunks) |-> hunk_str(hunks[i])]

\* the number of hunks serialized in a chunk text: its "File: " lines
FileLineCount(text) ==
    LET ls == split(text, NL)
    IN Cardinality({k \in 1..Len(ls) : startswith(ls[k], S_File)})

RECURSIVE SumSeq(_)
SumSeq(q) == IF Len(q) = 0 THEN 0 ELSE q[1] + SumSeq(Tail(q))

\* per chunk: how many hunks it holds
ChunkCounts == [k \in 1..Len(chunks) |-> FileLineCount(chunks[k])]
\* the index of the first hunk of chunk k, given the hunk counts of the chunks
ChunkFirst(counts, k) == 1 + SumSeq(SubSeq(counts, 1, k - 1))
\* the serialized hunks of chunk k
ChunkHunkStrs(hs, counts, k) ==
    SubSeq(hs, ChunkFirst(counts, k), ChunkFirst(counts, k) + counts[k] - 1)
\* the size chunk_diff accounts for chunk k: the sum of its hunks' sizes
ChunkSize(sizes, counts, k) ==
    SumSeq(SubSeq(sizes, ChunkFirst(counts, k), ChunkFirst(counts, k) + counts[k] - 1))

\* C5: when the diff is longer than the budget, every parsed hunk is in exactly
\* one chunk, whole and in the original order: each chunk text is the join of a
\* run of consecutive serialized hunks, the runs follow one another without gap
\* or overlap, and the hunk counts of the chunks add up to the parsed hunk count.
C5_NoHunkDroppedOrDuplicated ==
    (Chunked /\ Len(diff) > max_chunk_size) =>
        LET counts == ChunkCounts
            hs == HunkStrs
        IN /\ SumSeq(counts) = Len(hunks)
           /\ \A k \in 1..Len(chunks) :
                 /\ counts[k] >= 1
                 /\ chunks[k] = join(<<NL>>, ChunkHunkStrs(hs, counts, k))
           /\ join(<<NL>>, chunks) = join(<<NL>>, hs)

C5_Witness ==
    /\ Chunked
    /\ Len(diff) > max_chunk_size
    /\ Len(hunks) >= 3
    /\ Len(chunks) = 2
    /\ \E k \in 1..Len(chunks) : ChunkCounts[k] = 2

\* C6: every chunk text that holds two or more hunks is at most max_chunk_size
\* characters long.
C6_MultiHunkChunkWithinBudget ==
    (Chunked /\ Len(diff) > max_chunk_size) =>
        \A k \in 1..Len(chunks) :
            FileLineCount(chunks[k]) >= 2 => Len(chunks[k]) <= max_chunk_size

\* C7: the chunks are the greedy packing of the hunks in order: a chunk of
\* several hunks has an accounted size within the budget (so a hunk larger than
\* the budget is alone in its chunk), and the first hunk of the next chunk did
\* not fit the chunk before it; three hunks of three files that fit one by one
\* and not two by two give three chunks.
C7_GreedyPacking ==
    (Chunked /\ Len(diff) > max_chunk_size) =>
        LET counts == ChunkCounts
            sizes == [i \in 1..Len(hunks) |-> Len(hunk_str(hunks[i]))]
        IN /\ SumSeq(counts) = Len(hunks)
           /\ \A k \in 1..Len(chunks) :
                 /\ counts[k] >= 1
                 /\ (counts[k] >= 2 => ChunkSize(sizes, counts, k) <= max_chunk_size)
                 /\ (k < Len(chunks) =>
                       ChunkSize(sizes, counts, k) + sizes[ChunkFirst(counts, k + 1)]
                           > max_chunk_size)
           /\ \A i \in 1..Len(hunks) :
                 sizes[i] > max_chunk_size =>
                     \E k \in 1..Len(chunks) :
                         ChunkFirst(counts, k) = i /\ counts[k] = 1
           /\ ( /\ Len(hunks) = 3
                /\ \A i \in 1..3 : sizes[i] <= max_chunk_size
                /\ \A i, j \in 1..3 : i # j => sizes[i] + sizes[j] > max_chunk_size )
              => Len(chunks) = 3

C7_Witness ==
    /\ Chunked
    /\ Len(diff) > max_chunk_size
    /\ Len(hunks) = 3
    /\ Cardinality({hunks[i].file_path : i \in 1..3}) = 3
    /\ \A i \in 1..3 : Len(HunkStrs[i]) <= max_chunk_size
    /\ \A i, j \in 1..3 : i # j => Len(HunkStrs[i]) + Len(HunkStrs[j]) > max_chunk_size
    /\ Len(chunks) = 3

\* C8: a diff no longer than the budget comes back from chunk_diff as the
\* one-element list holding the diff unchanged, and orchestrate_review takes a
\* diff no longer than max_diff_size as its single chunk, unchanged.
C8_SmallDiffVerbatim ==
    /\ (Chunked /\ Len(diff) <= max_chunk_size) => chunks = <<diff>>
    /\ (tpc = "planned" /\ Len(diff) <= max_diff_size) => plan = <<diff>>

C8_Witness ==
    /\ tpc = "planned"
    /\ hunks # <<>>
    /\ Len(diff) <= max_chunk_size
    /\ Len(diff) <= max_diff_size
    /\ chunks = <<diff>>
    /\ plan = <<diff>>

\* the hunk headers a reader of the diff expects: for every line that matches
\* the hunk-header grammar and has a "+++ b/<path>" line before it, the path of
\* the most recent such line and the start numbers of the header
ExpectedHeaders(d) ==
    LET ls == split(d, NL)
        fileLines(i) == {j \in 1..(i - 1) : match_new_file(ls[j]) # None}
        lastFile(i) == CHOOSE j \in fileLines(i) : \A j2 \in fileLines(i) : j2 <= j
        idx == {i \in 1..Len(ls) : match_hunk_header(ls[i]) # None /\ fileLines(i) # {}}
        n == Cardinality(idx)
        at(k) == CHOOSE i \in idx : Cardinality({j \in idx : j < i}) = k - 1
    IN [k \in 1..n |->
          [file_path |-> match_new_file(ls[lastFile(at(k))])[1],
           old_start |-> int(match_hunk_header(ls[at(k)])[1][1]),
           new_start |-> int(match_hunk_header(ls[at(k)])[1][3])]]

Headers(hs) ==
    [i \in 1..Len(hs) |->
        [file_path |-> hs[i].file_path, old_start |-> hs[i].old_start,
         new_start |-> hs[i].new_start]]

\* C9: the parsed hunks are, in order, the hunk headers of the diff that a
\* "+++ b/<path>" line precedes, each with the path of the most recent such
\* line and the start numbers of its header, with or without "diff --git"
\* lines between the file sections.
C9_HunkFileIsMostRecentHeader ==
    tpc # "input" => Headers(hunks) = ExpectedHeaders(diff)

\* the line with a trailing carriage return removed
strip_cr(line) ==
    IF Len(line) > 0 /\ line[Len(line)] = CR THEN SubSeq(line, 1, Len(line) - 1) ELSE line

\* the text with every CRLF line ending replaced by LF
WithLF(d) ==
    LET ls == split(d, NL) IN join(<<NL>>, [k \in 1..Len(ls) |-> strip_cr(ls[k])])

\* C10: parsing a diff written with CRLF line endings gives the same hunks as
\* parsing the same diff written with LF line endings.
C10_CRLFParsesLikeLF ==
    tpc # "input" => hunks = parse_unified_diff(WithLF(diff))

\* the file sections that are well-formed: a "+++ b/<path>" line before every
\* hunk header, every hunk header in the grammar
ValidSections == {SecX, SecYW, SecZ}

\* the valid unified diffs among the inputs: one or more well-formed file
\* sections, every line ended by a newline
ValidDiffs ==
    {render(flatten(ss), <<NL>>) :
        ss \in {s \in SectionSeqs : Len(s) > 0 /\ \A k \in 1..Len(s) : s[k] \in ValidSections}}

\* C11: for a valid unified diff d ending with a newline, parse_unified_diff(d + d)
\* is parse_unified_diff(d) followed by parse_unified_diff(d), field by field.
C11_ParseOfDoubledDiff ==
    (tpc # "input" /\ diff \in ValidDiffs) =>
        parse_unified_diff(diff \o diff) = hunks \o hunks

\* the line is a "@@" line that opens no hunk
IsSkippedHeader(line, current_file) ==
    /\ startswith(line, S_at2)
    /\ \/ match_hunk_header(line) = None
       \/ current_file = None

\* C12: parse_unified_diff terminates on every input and returns a list of
\* hunks: every iteration of its loop moves the scan index forward, also on a
\* "@@" line that is outside the hunk-header grammar or has no current file,
\* and for the empty diff the list is empty.
C12_ParserTerminates ==
    /\ [][ScanStep => scan'.i > scan.i]_vars
    /\ <>(scan.returned)
    /\ [](scan.returned /\ diff = <<>> => scan.hunks = <<>>)

\* the parser returned for a diff with a "@@" line outside the grammar and a
\* well-formed "@@" line with no current file, both skipped
C12_Witness ==
    /\ scan.returned
    /\ scan.i = Len(scan.lines) + 1
    /\ \E a, b \in 1..Len(scan.lines) :
         /\ IsSkippedHeader(scan.lines[a], None) /\ match_hunk_header(scan.lines[a]) = None
         /\ IsSkippedHeader(scan.lines[b], None) /\ match_hunk_header(scan.lines[b]) # None
    /\ scan.hunks = <<>>

====
